---------------------------- MODULE Spec2Model ----------------------------
(***************************************************************************)
(* Power Pocket Calculators (PWA).                                         *)
(*                                                                         *)
(* Two independent components are modelled:                                *)
(*   - the service worker of src/service-worker.js (the asset cache and    *)
(*     its install / activate / fetch listeners), specification SpecSW;    *)
(*   - the calculator registry and the page's handlers of src/app.js,      *)
(*     specification SpecUI.                                               *)
(***************************************************************************)
EXTENDS Integers, Sequences, FiniteSets, TLC

VARIABLES
    \* ---- service worker (src/service-worker.js) and its host ----
    caches,           \* CacheStorage of the origin: caches in creation order
    now,              \* the host's clock, as read by Date.now()
    CACHE,            \* per worker version: the CACHE constant of its global scope
    ver,              \* number of the newest worker version (0: never registered)
    phase,            \* lifecycle state of version ver
    activeVer,        \* the version whose activation completed last (0: none)
    skipWaitingFlag,  \* set by self.skipWaiting() of version ver
    controlled,       \* the page is controlled by the active worker
    opened,           \* per version: the cache name its install listener opened
    installDown,      \* per version: the assets that could not be fetched at install
    failed,           \* versions whose install the host marked failed
    lastEvent,        \* the last event the host dispatched
    lastReq,          \* request of the last fetch event
    resp,             \* what the last fetch event answered
    network,          \* what the network answered during the last fetch event
    \* ---- page (src/app.js) ----
    selected,         \* value of the calc-select dropdown
    fields,           \* raw text of each input of the form, by data-key
    resultText,       \* textContent of the result element (pieces of text)
    resultError,      \* the "error" class of the result element
    thrown,           \* what the last compute click caught
    out,              \* what CALCS[name].compute returned at the last compute click
    lastUI            \* the last trigger the page handled

swVars == <<caches, now, CACHE, ver, phase, activeVer, skipWaitingFlag, controlled,
            opened, installDown, failed, lastEvent, lastReq, resp, network>>
uiVars == <<selected, fields, resultText, resultError, thrown, out, lastUI>>
vars == <<swVars, uiVars>>

---------------------------------------------------------------------------
(* Bounds of the model *)

\* number of worker versions (deployments) that are ever registered
MaxVer == 3
\* last value of the clock: bounds the script evaluations (registrations and restarts)
MaxClock == 4

---------------------------------------------------------------------------
(* src/service-worker.js *)

\* cache names are a prefix followed by a timestamp
CacheName(prefix, stamp) == [prefix |-> prefix, stamp |-> stamp]

NoName == CacheName("", 0)

\* const CACHE = "ppc-cache-v2-" + Date.now();
EvalCACHE(t) == CacheName("ppc-cache-v2-", t)

\* k.startsWith("ppc-cache-"): the prefixes of the model's names that begin so
StartsWithPpcCache(k) == k.prefix \in {"ppc-cache-v2-", "ppc-cache-v1-"}

ASSETS == << "./", "./index.html", "./styles.css", "./app.js", "./manifest.json",
             "./assets/icon-512.png", "./assets/icon.svg", "./assets/background.png" >>

\* Boolean(s) of a string: false for the empty string only
Truthy(s) == s # ""

\* ASSETS.filter(Boolean)
FilteredAssets == SelectSeq(ASSETS, Truthy)

Range(s) == {s[i] : i \in 1..Len(s)}

\* requests a page makes: the assets and one resource that is not an asset
Requests == Range(ASSETS) \cup {"./api/data"}

EmptyEntries == [u \in {} |-> 0]

\* caches.keys(): the names in creation order
Keys(store) == [i \in 1..Len(store) |-> store[i].name]

Has(store, k) == \E i \in 1..Len(store) : store[i].name = k

EntriesOf(store, k) ==
    LET i == CHOOSE j \in 1..Len(store) : store[j].name = k IN store[i].entries

\* caches.open(k): creates the cache when there is none of that name
CachesOpen(store, k) ==
    IF Has(store, k) THEN store
    ELSE Append(store, [name |-> k, entries |-> EmptyEntries])

\* Promise.all over caches.delete(k) for the keys of a set
DeleteAll(store, ks) == SelectSeq(store, LAMBDA c : c.name \notin ks)

\* cache.addAll(urls): every url is fetched, and the entries are stored only
\* when every fetch succeeded; otherwise the promise rejects and nothing is stored
AddAllRejects(urls, down) == \E i \in 1..Len(urls) : urls[i] \in down

CacheAddAll(entries, urls, down, body) ==
    IF AddAllRejects(urls, down) THEN entries
    ELSE [u \in (DOMAIN entries) \cup Range(urls) |->
            IF u \in Range(urls) THEN body ELSE entries[u]]

\* a variant of the second install listener that also purges the older versions
InstallListener2_PurgeOld(store, cacheName, down, body) ==
    LET st == CachesOpen(SelectSeq(store, LAMBDA c : ~StartsWithPpcCache(c.name)),
                         cacheName)
    IN  [i \in 1..Len(st) |->
            IF st[i].name = cacheName
            THEN [st[i] EXCEPT !.entries = CacheAddAll(@, FilteredAssets, down, body)]
            ELSE st[i]]

\* second install listener: caches.open(CACHE).then(c => c.addAll(ASSETS.filter(Boolean)))
InstallListener2(store, cacheName, down, body) ==
    LET st == CachesOpen(store, cacheName) IN
    [i \in 1..Len(st) |->
        IF st[i].name = cacheName
        THEN [st[i] EXCEPT !.entries = CacheAddAll(@, FilteredAssets, down, body)]
        ELSE st[i]]

\* a variant in which the promise of addAll is not handed to e.waitUntil
InstallRejects_NotAwaited(down) == FALSE

\* the promise handed to e.waitUntil by the install listener rejects
InstallRejects(down) == AddAllRejects(FilteredAssets, down)

\* first activate listener: deletes the keys with the prefix that are not CACHE
ActivateListener1(store, cacheName) ==
    DeleteAll(store, {k \in Range(Keys(store)) : StartsWithPpcCache(k) /\ k # cacheName})

\* second activate listener: deletes every key that is not CACHE
ActivateListener2(store, cacheName) ==
    DeleteAll(store, {k \in Range(Keys(store)) : k # cacheName})

NoResponse == [kind |-> "none", body |-> 0]

CachedResponse(b) == [kind |-> "cached", body |-> b]

NetworkResponse(b) == [kind |-> "network", body |-> b]

NetworkFailure == [kind |-> "failure", body |-> 0]

\* caches.match(request): the entry of the first cache, in creation order, that has one
CachesMatch(store, req) ==
    LET hits == {i \in 1..Len(store) : req \in DOMAIN store[i].entries} IN
    IF hits = {} THEN NoResponse
    ELSE LET i == CHOOSE j \in hits : \A h \in hits : j <= h
         IN  CachedResponse(store[i].entries[req])

\* a network-first variant of the fetch listener: the cache only as a fallback
FetchListener_NetworkFirst(store, req, net) ==
    LET m == CachesMatch(store, req) IN
    IF net.kind = "network" \/ m = NoResponse
    THEN [resp |-> net, network |-> net, store |-> store]
    ELSE [resp |-> m, network |-> net, store |-> store]

\* fetch listener: caches.match(e.request).then(resp => resp || fetch(e.request)).
\* net is what fetch(e.request) answers when it is called.
FetchListener(store, req, net) ==
    LET m == CachesMatch(store, req) IN
    IF m # NoResponse
    THEN [resp |-> m, network |-> NoResponse, store |-> store]
    ELSE [resp |-> net, network |-> net, store |-> store]

---------------------------------------------------------------------------
(* The host's side of the service worker lifecycle *)

Versions == 1..MaxVer

\* caches another deployment scheme or another script of the origin left behind
LegacyCaches ==
    { <<>>,
      << [name |-> CacheName("other-", 0), entries |-> [u \in {"./api/data"} |-> 0]] >>,
      << [name |-> CacheName("ppc-cache-v1-", 0), entries |-> [u \in {"./"} |-> 0]] >>,
      << [name |-> CacheName("other-", 0), entries |-> [u \in {"./api/data"} |-> 0]],
         [name |-> CacheName("ppc-cache-v1-", 0), entries |-> [u \in {"./"} |-> 0]] >> }

\* the sets of unreachable urls an event may meet
Outages == {{}, {"./app.js"}, Requests}

InitSW ==
    /\ caches \in LegacyCaches
    /\ now = 0
    /\ CACHE = [v \in Versions |-> NoName]
    /\ ver = 0
    /\ phase = "Uninstalled"
    /\ activeVer = 0
    /\ skipWaitingFlag = FALSE
    /\ controlled = FALSE
    /\ opened = [v \in Versions |-> NoName]
    /\ installDown = [v \in Versions |-> {}]
    /\ failed = {}
    /\ lastEvent = "none"
    /\ lastReq = "./"
    /\ resp = NoResponse
    /\ network = NoResponse

\* navigator.serviceWorker.register("service-worker.js") finds a new worker script:
\* the host evaluates it and the version starts installing
Register ==
    /\ phase \in {"Uninstalled", "Active", "Redundant"}
    /\ ver < MaxVer
    /\ now < MaxClock
    /\ now' = now + 1
    /\ ver' = ver + 1
    /\ CACHE' = [CACHE EXCEPT ![ver + 1] = EvalCACHE(now + 1)]
    /\ phase' = "Installing"
    /\ skipWaitingFlag' = FALSE
    /\ lastEvent' = "register"
    /\ UNCHANGED <<caches, activeVer, controlled, opened, installDown, failed,
                   lastReq, resp, network>>

\* the install event: both install listeners run, the host waits for the
\* promise given to waitUntil
Install ==
    /\ phase = "Installing"
    /\ \E down \in Outages :
        /\ skipWaitingFlag' = TRUE
        /\ caches' = InstallListener2(caches, CACHE[ver], down, ver)
        /\ opened' = [opened EXCEPT ![ver] = CACHE[ver]]
        /\ installDown' = [installDown EXCEPT ![ver] = down \cap Range(FilteredAssets)]
        /\ IF InstallRejects(down)
           THEN /\ failed' = failed \cup {ver}
                /\ phase' = "Redundant"
           ELSE /\ failed' = failed
                /\ phase' = "Installed"
    /\ lastEvent' = "install"
    /\ UNCHANGED <<now, CACHE, ver, activeVer, controlled, lastReq, resp, network>>

\* the host stops an idle worker and evaluates its script again for the next event
Restart ==
    /\ now < MaxClock
    /\ \E v \in Versions :
        /\ \/ v = ver /\ phase \in {"Installed", "Active"}
           \/ v = activeVer
        /\ now' = now + 1
        /\ CACHE' = [CACHE EXCEPT ![v] = EvalCACHE(now + 1)]
    /\ lastEvent' = "restart"
    /\ UNCHANGED <<caches, ver, phase, activeVer, skipWaitingFlag, controlled,
                   opened, installDown, failed, lastReq, resp, network>>

\* the activate event: both activate listeners run; the first one ends with
\* self.clients.claim()
Activate ==
    /\ phase = "Installed"
    /\ activeVer = 0 \/ skipWaitingFlag \/ ~controlled
    /\ caches' = ActivateListener2(ActivateListener1(caches, CACHE[ver]), CACHE[ver])
    /\ controlled' = TRUE
    /\ activeVer' = ver
    /\ phase' = "Active"
    /\ lastEvent' = "activate"
    /\ UNCHANGED <<now, CACHE, ver, skipWaitingFlag, opened, installDown, failed,
                   lastReq, resp, network>>

\* a request of the controlled page: the fetch event
Fetch ==
    /\ activeVer # 0
    /\ controlled
    /\ \E req \in Requests, down \in Outages :
        LET net == IF req \in down THEN NetworkFailure ELSE NetworkResponse(ver)
            r == FetchListener(caches, req, net)
        IN  /\ lastReq' = req
            /\ resp' = r.resp
            /\ network' = r.network
            /\ caches' = r.store
    /\ lastEvent' = "fetch"
    /\ UNCHANGED <<now, CACHE, ver, phase, activeVer, skipWaitingFlag, controlled,
                   opened, installDown, failed>>

---------------------------------------------------------------------------
(* Numbers of the page's script.                                           *)
(* A JavaScript number is NaN, an infinity, or a finite value; the finite  *)
(* values are kept as exact fractions n/d in lowest terms (rounding of the *)
(* binary representation is not modelled). The value of Math.sqrt,         *)
(* Math.acos or a product with Math.sqrt(3) that is not rational is kept   *)
(* as a term over its rational argument.                                   *)

Abs(x) == IF x < 0 THEN -x ELSE x

RECURSIVE GCD(_, _)
GCD(a, b) == IF b = 0 THEN a ELSE GCD(b, a % b)

NaN == [k |-> "nan", n |-> 0, d |-> 0]

PosInf == [k |-> "inf", n |-> 1, d |-> 0]

NegInf == [k |-> "inf", n |-> -1, d |-> 0]

Fin(n, d) ==
    LET s == IF d < 0 THEN -1 ELSE 1
        g == GCD(Abs(n), Abs(d))
    IN  [k |-> "fin", n |-> (s * n) \div g, d |-> (s * d) \div g]

Zero == Fin(0, 1)

One == Fin(1, 1)

Irr(f, x) == [k |-> f, n |-> x.n, d |-> x.d]

\* Number.isNaN(x)
IsNaN(x) == x.k = "nan"

IsInf(x) == x.k = "inf"

IsFin(x) == x.k = "fin"

SignOf(x) == IF x.n < 0 THEN -1 ELSE 1

\* a < b: false when either side is NaN
Lt(a, b) ==
    IF IsNaN(a) \/ IsNaN(b) THEN FALSE
    ELSE IF IsInf(a) THEN a.n = -1 /\ b # NegInf
    ELSE IF IsInf(b) THEN b.n = 1
    ELSE a.n * b.d < b.n * a.d

\* a === b on numbers
NumEq(a, b) == ~IsNaN(a) /\ ~IsNaN(b) /\ a = b

\* a <= b
Le(a, b) == Lt(a, b) \/ NumEq(a, b)

\* a > b
Gt(a, b) == Lt(b, a)

\* a >= b
Ge(a, b) == Le(b, a)

\* a * b
Mul(a, b) ==
    IF IsNaN(a) \/ IsNaN(b) THEN NaN
    ELSE IF IsInf(a) \/ IsInf(b)
         THEN IF a = Zero \/ b = Zero THEN NaN
              ELSE IF SignOf(a) * SignOf(b) < 0 THEN NegInf ELSE PosInf
    ELSE Fin(a.n * b.n, a.d * b.d)

\* a / b (the sign of a zero is not kept: a nonzero value over 0 takes a's sign)
Div(a, b) ==
    IF IsNaN(a) \/ IsNaN(b) THEN NaN
    ELSE IF IsInf(a)
         THEN IF IsInf(b) THEN NaN
              ELSE IF SignOf(a) * SignOf(b) < 0 THEN NegInf ELSE PosInf
    ELSE IF IsInf(b) THEN Zero
    ELSE IF b = Zero
         THEN IF a = Zero THEN NaN
              ELSE IF SignOf(a) < 0 THEN NegInf ELSE PosInf
    ELSE Fin(a.n * b.d, a.d * b.n)

\* a - b
Sub(a, b) ==
    IF IsNaN(a) \/ IsNaN(b) THEN NaN
    ELSE IF IsInf(a) THEN (IF IsInf(b) /\ a.n = b.n THEN NaN ELSE a)
    ELSE IF IsInf(b) THEN (IF b.n = 1 THEN NegInf ELSE PosInf)
    ELSE Fin(a.n * b.d - b.n * a.d, a.d * b.d)

\* Math.max(a, b) and Math.min(a, b): NaN when either argument is NaN
MathMax(a, b) == IF IsNaN(a) \/ IsNaN(b) THEN NaN ELSE IF Lt(a, b) THEN b ELSE a

MathMin(a, b) == IF IsNaN(a) \/ IsNaN(b) THEN NaN ELSE IF Lt(b, a) THEN b ELSE a

\* the largest r in lo..hi with r * r <= m
RECURSIVE ISqrtIn(_, _, _)
ISqrtIn(m, lo, hi) ==
    IF lo >= hi THEN lo
    ELSE LET mid == (lo + hi + 1) \div 2
         IN  IF mid * mid <= m THEN ISqrtIn(m, mid, hi) ELSE ISqrtIn(m, lo, mid - 1)

ISqrt(m) == ISqrtIn(m, 0, IF m < 46340 THEN m ELSE 46340)

IsSquare(m) == ISqrt(m) * ISqrt(m) = m

\* Math.sqrt(x)
MathSqrt(x) ==
    IF IsNaN(x) \/ Lt(x, Zero) THEN NaN
    ELSE IF IsInf(x) THEN PosInf
    ELSE IF IsSquare(x.n) /\ IsSquare(x.d) THEN Fin(ISqrt(x.n), ISqrt(x.d))
    ELSE Irr("sqrt", x)

\* (180/Math.PI) * Math.acos(pf) for pf in [0, 1] or NaN
AcosDeg(pf) ==
    IF IsNaN(pf) THEN NaN
    ELSE IF pf = One THEN Zero
    ELSE IF pf = Zero THEN Fin(90, 1)
    ELSE Irr("acos", pf)

\* Math.sqrt(3) * x
Sqrt3Times(x) == IF IsFin(x) /\ x # Zero THEN Irr("sqrt3", x) ELSE x

RECURSIVE Pow10(_)
Pow10(e) == IF e = 0 THEN 1 ELSE 10 * Pow10(e - 1)

\* the last e decimal digits of m, with leading zeros
RECURSIVE LowDigits(_, _)
LowDigits(m, e) == IF e = 0 THEN "" ELSE LowDigits(m \div 10, e - 1) \o ToString(m % 10)

\* x.toFixed(e), e > 0: the nearest multiple of 10^-e, the larger of two nearest ones
ToFixed(x, e) ==
    IF IsNaN(x) THEN "NaN"
    ELSE IF IsInf(x) THEN (IF x.n < 0 THEN "-Infinity" ELSE "Infinity")
    ELSE IF ~IsFin(x)
         THEN x.k \o "(" \o ToString(x.n) \o "/" \o ToString(x.d) \o ").toFixed("
                  \o ToString(e) \o ")"
    ELSE LET scaled == Abs(x.n) * Pow10(e)
             q == scaled \div x.d
             r == scaled % x.d
             m == IF 2 * r >= x.d THEN q + 1 ELSE q
         IN  (IF x.n < 0 THEN "-" ELSE "") \o ToString(m \div Pow10(e)) \o "."
                 \o LowDigits(m, e)

---------------------------------------------------------------------------
(* src/app.js: pure computation *)

\* what a function returns (err = "") or the message of the CalcError it throws
Return(v) == [err |-> "", val |-> v]

Throw(msg) == [err |-> msg, val |-> NaN]

power_factor(p_kw, s_kva) ==
    IF Le(s_kva, Zero) THEN Throw("kVA must be > 0")
    ELSE IF Lt(p_kw, Zero) THEN Throw("kW must be >= 0")
    ELSE IF Gt(p_kw, s_kva) THEN Throw("kW cannot exceed kVA")
    ELSE Return(Div(p_kw, s_kva))

reactive_power_kvar(s_kva, p_kw) ==
    IF Le(s_kva, Zero) THEN Throw("kVA must be > 0")
    ELSE IF Lt(p_kw, Zero) THEN Throw("kW must be >= 0")
    ELSE IF Gt(p_kw, s_kva) THEN Throw("kW cannot exceed kVA")
    ELSE LET val == Sub(Mul(s_kva, s_kva), Mul(p_kw, p_kw))
         IN  Return(MathSqrt(IF Gt(val, Zero) THEN val ELSE Zero))

phase_angle_deg(s_kva, p_kw) ==
    LET r == power_factor(p_kw, s_kva) IN
    IF r.err # "" THEN r
    ELSE Return(AcosDeg(MathMin(One, MathMax(Zero, r.val))))

load_kw_single(volts, amps, pf) ==
    IF Le(volts, Zero) THEN Throw("Volts must be > 0")
    ELSE IF Le(amps, Zero) THEN Throw("Amps must be > 0")
    ELSE IF ~(Ge(pf, Zero) /\ Le(pf, One))
         THEN Throw("Power factor must be between 0 and 1")
    ELSE Return(Div(Mul(Mul(volts, amps), pf), Fin(1000, 1)))

load_kw_three(volts, amps, pf) ==
    IF Le(volts, Zero) THEN Throw("Volts must be > 0")
    ELSE IF Le(amps, Zero) THEN Throw("Amps must be > 0")
    ELSE IF ~(Ge(pf, Zero) /\ Le(pf, One))
         THEN Throw("Power factor must be between 0 and 1")
    ELSE Return(Sqrt3Times(Div(Mul(Mul(volts, amps), pf), Fin(1000, 1))))

---------------------------------------------------------------------------
(* src/app.js: the registry CALCS *)

CalcNames == << "Power Factor", "Reactive Power", "Phase Angle", "Ohm's Law",
                "Load (Single-Phase)", "Load (Three-Phase)" >>

\* CALCS[name].inputs: the keys, in order
Inputs(name) ==
    CASE name = "Power Factor" -> <<"p_kw", "s_kva">>
      [] name = "Reactive Power" -> <<"s_kva", "p_kw">>
      [] name = "Phase Angle" -> <<"s_kva", "p_kw">>
      [] name = "Ohm's Law" -> <<"volts", "amps", "ohms">>
      [] name = "Load (Single-Phase)" -> <<"volts", "amps", "pf">>
      [] name = "Load (Three-Phase)" -> <<"volts", "amps", "pf">>

\* the object a compute function returns: output key -> number
NoResult == [x \in {} |-> NaN]

Wrap(key, r) == IF r.err # "" THEN [err |-> r.err, val |-> NoResult]
                ELSE [err |-> "", val |-> [x \in {key} |-> r.val]]

\* CALCS["Ohm's Law"].compute
OhmCompute(d) ==
    LET v == d["volts"]
        i == d["amps"]
        r == d["ohms"]
        known == Cardinality({x \in {"volts", "amps", "ohms"} : ~IsNaN(d[x])})
    IN  IF known # 2 THEN [err |-> "Provide exactly two of V, I, R", val |-> NoResult]
        ELSE IF IsNaN(v)
             THEN [err |-> "", val |-> [d EXCEPT !["volts"] = Mul(i, r)]]
        ELSE IF IsNaN(i)
             THEN IF NumEq(r, Zero) THEN [err |-> "R must not be 0", val |-> NoResult]
                  ELSE [err |-> "", val |-> [d EXCEPT !["amps"] = Div(v, r)]]
        ELSE IF IsNaN(r)
             THEN IF NumEq(i, Zero) THEN [err |-> "I must not be 0", val |-> NoResult]
                  ELSE [err |-> "", val |-> [d EXCEPT !["ohms"] = Div(v, i)]]
        ELSE [err |-> "", val |-> d]

\* CALCS[name].compute(d)
Compute(name, d) ==
    CASE name = "Power Factor" -> Wrap("pf", power_factor(d["p_kw"], d["s_kva"]))
      [] name = "Reactive Power" -> Wrap("q", reactive_power_kvar(d["s_kva"], d["p_kw"]))
      [] name = "Phase Angle" -> Wrap("theta", phase_angle_deg(d["s_kva"], d["p_kw"]))
      [] name = "Ohm's Law" -> OhmCompute(d)
      [] name = "Load (Single-Phase)" ->
            Wrap("kw", load_kw_single(d["volts"], d["amps"], d["pf"]))
      [] name = "Load (Three-Phase)" ->
            Wrap("kw", load_kw_three(d["volts"], d["amps"], d["pf"]))

\* CALCS[name].format(r): the pieces of the template string
\* (theta, the degree sign and the Ohm sign are written in ASCII)
Format(name, r) ==
    CASE name = "Power Factor" -> <<"PF = ", ToFixed(r["pf"], 4)>>
      [] name = "Reactive Power" -> <<"Q = ", ToFixed(r["q"], 3), " kVAr">>
      [] name = "Phase Angle" -> <<"theta = ", ToFixed(r["theta"], 2), " deg">>
      [] name = "Ohm's Law" ->
            <<"V=", ToFixed(r["volts"], 3), " V, I=", ToFixed(r["amps"], 3),
              " A, R=", ToFixed(r["ohms"], 3), " Ohm">>
      [] name = "Load (Single-Phase)" -> <<"P = ", ToFixed(r["kw"], 3), " kW">>
      [] name = "Load (Three-Phase)" -> <<"P = ", ToFixed(r["kw"], 3), " kW">>

---------------------------------------------------------------------------
(* src/app.js: reading the form *)

\* a text is a sequence of characters
Blank == <<>>

InfinityLiteral == <<"I", "n", "f", "i", "n", "i", "t", "y">>

DigitChars == {"0", "1", "2", "3", "4", "5", "6", "7", "8", "9"}

DigitValue(c) ==
    CASE c = "0" -> 0 [] c = "1" -> 1 [] c = "2" -> 2 [] c = "3" -> 3 [] c = "4" -> 4
      [] c = "5" -> 5 [] c = "6" -> 6 [] c = "7" -> 7 [] c = "8" -> 8 [] c = "9" -> 9

\* raw.replace(/,/g, "")
RemoveCommas(t) == SelectSeq(t, LAMBDA c : c # ",")

\* raw.trim()
RECURSIVE TrimStart(_)
TrimStart(t) == IF t # <<>> /\ t[1] = " " THEN TrimStart(Tail(t)) ELSE t

RECURSIVE TrimEnd(_)
TrimEnd(t) ==
    IF t # <<>> /\ t[Len(t)] = " " THEN TrimEnd(SubSeq(t, 1, Len(t) - 1)) ELSE t

Trim(t) == TrimEnd(TrimStart(t))

RECURSIVE DigitsValue(_)
DigitsValue(t) ==
    IF t = <<>> THEN 0
    ELSE 10 * DigitsValue(SubSeq(t, 1, Len(t) - 1)) + DigitValue(t[Len(t)])

\* Number(raw) of a trimmed text: an optional sign, then Infinity or decimal
\* digits with at most one point; anything else is NaN (exponents, hexadecimal
\* and inner white space do not occur in the texts of the model)
ToNumber(t) ==
    IF t = <<>> THEN Zero
    ELSE LET signed == t[1] \in {"+", "-"}
             neg == t[1] = "-"
             body == IF signed THEN Tail(t) ELSE t
             points == {i \in 1..Len(body) : body[i] = "."}
             digits == SelectSeq(body, LAMBDA c : c \in DigitChars)
             frac == IF points = {} THEN 0
                     ELSE Len(body) - (CHOOSE i \in points : TRUE)
         IN  IF body = InfinityLiteral THEN (IF neg THEN NegInf ELSE PosInf)
             ELSE IF /\ \A i \in 1..Len(body) : body[i] \in DigitChars \cup {"."}
                     /\ Cardinality(points) <= 1
                     /\ digits # <<>>
                  THEN Fin((IF neg THEN -1 ELSE 1) * DigitsValue(digits), Pow10(frac))
             ELSE NaN

\* collectInputs(name): one value per input of the form
collectInputs(name, flds) ==
    [k \in DOMAIN flds |->
        LET raw == Trim(RemoveCommas(flds[k]))
        IN  IF raw = Blank THEN NaN ELSE ToNumber(raw)]

\* buildForm(name): one empty input per descriptor
buildForm(name) == [k \in Range(Inputs(name)) |-> Blank]

\* showResult(text, isError)
showResult(text, isError) == [text |-> text, error |-> isError]

\* a variant of the click listener whose catch branch omits the isError argument
ComputeClick_NoErrorFlag(name, flds) ==
    LET parsed == collectInputs(name, flds)
        o == Compute(name, parsed)
    IN  IF o.err # ""
        THEN [shown |-> showResult(<<"[error] ", o.err>>, FALSE),
              thrown |-> "CalcError", out |-> NoResult]
        ELSE [shown |-> showResult(Format(name, o.val), FALSE),
              thrown |-> "none", out |-> o.val]

\* the click listener of the compute button
ComputeClick(name, flds) ==
    IF name \notin Range(CalcNames)
    THEN [shown |-> showResult(<<"[unexpected] ", "TypeError">>, TRUE),
          thrown |-> "other", out |-> NoResult]
    ELSE LET parsed == collectInputs(name, flds)
             o == Compute(name, parsed)
         IN  IF o.err # ""
             THEN [shown |-> showResult(<<"[error] ", o.err>>, TRUE),
                   thrown |-> "CalcError", out |-> NoResult]
             ELSE [shown |-> showResult(Format(name, o.val), FALSE),
                   thrown |-> "none", out |-> o.val]

---------------------------------------------------------------------------
(* The page: what a user can do *)

\* the texts a user types into an input
RawTexts ==
    { Blank,
      <<"a", "b", "c">>,
      <<"0">>,
      <<"-", "5">>,
      <<"0", ".", "8">>,
      <<" ", "8", "0", " ">>,
      <<"1", ",", "0", "0", "0">>,
      InfinityLiteral }

\* after the load listener: the dropdown holds the names, the first one is
\* selected and its form is built
InitUI ==
    /\ selected = CalcNames[1]
    /\ fields = buildForm(CalcNames[1])
    /\ resultText = <<>>
    /\ resultError = FALSE
    /\ thrown = "none"
    /\ out = NoResult
    /\ lastUI = "load"

\* the user edits one input
Type ==
    /\ \E k \in DOMAIN fields, t \in RawTexts :
        /\ fields[k] # t
        /\ fields' = [fields EXCEPT ![k] = t]
    /\ lastUI' = "type"
    /\ UNCHANGED <<selected, resultText, resultError, thrown, out>>

\* the change listener of the dropdown
Select ==
    /\ \E name \in Range(CalcNames) :
        /\ name # selected
        /\ selected' = name
        /\ fields' = buildForm(name)
    /\ resultText' = showResult(<<>>, FALSE).text
    /\ resultError' = showResult(<<>>, FALSE).error
    /\ thrown' = "none"
    /\ out' = NoResult
    /\ lastUI' = "select"

\* the click listener of the compute button
Calculate ==
    /\ LET c == ComputeClick(selected, fields)
       IN  /\ resultText' = c.shown.text
           /\ resultError' = c.shown.error
           /\ thrown' = c.thrown
           /\ out' = c.out
    /\ lastUI' = "compute"
    /\ UNCHANGED <<selected, fields>>

\* the click listener of the clear button
Clear ==
    /\ fields' = [k \in DOMAIN fields |-> Blank]
    /\ resultText' = showResult(<<>>, FALSE).text
    /\ resultError' = showResult(<<>>, FALSE).error
    /\ thrown' = "none"
    /\ out' = NoResult
    /\ lastUI' = "clear"
    /\ UNCHANGED selected

---------------------------------------------------------------------------
(* Specifications *)

Init == InitSW /\ InitUI

NextSW ==
    \/ Register /\ UNCHANGED uiVars
    \/ Install /\ UNCHANGED uiVars
    \/ Restart /\ UNCHANGED uiVars
    \/ Activate /\ UNCHANGED uiVars
    \/ Fetch /\ UNCHANGED uiVars

NextUI ==
    \/ Type /\ UNCHANGED swVars
    \/ Select /\ UNCHANGED swVars
    \/ Calculate /\ UNCHANGED swVars
    \/ Clear /\ UNCHANGED swVars

\* the service worker alone (the page idle)
SpecSW == Init /\ [][NextSW]_vars

\* the page alone (no service worker event), from one store content
InitPage == Init /\ caches = <<>>

SpecUI == InitPage /\ [][NextUI]_vars

---------------------------------------------------------------------------
(* Properties of the service worker (checked under SpecSW) *)

ActivateStep == phase = "Installed" /\ phase' = "Active"

PrefixedCaches == {k \in Range(Keys(caches)) : StartsWithPpcCache(k)}

HoldsAllAssets(store, k) ==
    Has(store, k) /\ \A a \in Range(FilteredAssets) : a \in DOMAIN EntriesOf(store, k)

\* C1: when the Activate event is handled, a cache without the fixed prefix and
\* the cache named by the current version are still in the store, unchanged,
\* when activation completes, and every other cache with the prefix is gone.
C1_ActivateDeletesOnlyStalePrefixed ==
    [][ ActivateStep =>
          \A k \in Range(Keys(caches)) :
              IF ~StartsWithPpcCache(k) \/ k = CACHE[ver]
              THEN Has(caches', k) /\ EntriesOf(caches', k) = EntriesOf(caches, k)
              ELSE ~Has(caches', k) ]_vars

\* C2: once the activation of a version has completed, and while no newer
\* version is installing or installed and pending activation, the store holds
\* at most one cache with the fixed prefix.
C2_AtMostOnePrefixedCache ==
    (activeVer # 0 /\ phase \notin {"Installing", "Installed"})
        => Cardinality(PrefixedCaches) <= 1

\* C3: the fetch event is answered cache-first: with a matching entry in some
\* cache the answer is a cached entry and the network is not asked; without one
\* the answer is what the network answered, a failure included; and the fetch
\* event leaves the cache store as it was.
C3_FetchIsCacheFirst ==
    [][ lastEvent' = "fetch" =>
          /\ caches' = caches
          /\ LET holders == {i \in 1..Len(caches) : lastReq' \in DOMAIN caches[i].entries}
             IN  IF holders # {}
                 THEN /\ resp'.kind = "cached"
                      /\ \E i \in holders : resp'.body = caches[i].entries[lastReq']
                      /\ network' = NoResponse
                 ELSE /\ network'.kind \in {"network", "failure"}
                      /\ resp' = network' ]_vars

\* C3 witness: a request that no cache of a non-empty store holds met an
\* unreachable network, and the failure is the answer.
C3_Witness ==
    /\ lastEvent = "fetch"
    /\ resp = NetworkFailure
    /\ network = NetworkFailure
    /\ caches # <<>>

\* C4: install deletes nothing, and only the activate event purges: every step
\* other than the handling of the activate event keeps every cache of the store
\* with the entries it had.
C4_OnlyActivatePurges ==
    [][ ~ActivateStep =>
          \A k \in Range(Keys(caches)) :
              Has(caches', k) /\ EntriesOf(caches', k) = EntriesOf(caches, k) ]_vars

\* C4 witness: a new version is installed and pending activation while the
\* cache of the active version is still complete: two versions coexist.
C4_Witness ==
    /\ phase = "Installed"
    /\ activeVer # 0
    /\ opened[activeVer] # opened[ver]
    /\ HoldsAllAssets(caches, opened[activeVer])
    /\ HoldsAllAssets(caches, opened[ver])

\* C5: when the fetch of an asset fails during install, the install is marked
\* failed, the cache of that version holds none of the assets, and the version
\* is never installed or active.
C5_FailedInstallNeverActive ==
    \A v \in Versions :
        installDown[v] # {} =>
            /\ v \in failed
            /\ activeVer # v
            /\ ~(ver = v /\ phase \in {"Installed", "Active"})
            /\ Has(caches, opened[v]) =>
                   (DOMAIN EntriesOf(caches, opened[v])) \cap Range(ASSETS) = {}

\* C5 witness: an update failed to install with one asset unreachable; its
\* empty cache is in the store and the older version is still the active one.
C5_Witness ==
    \E v \in failed :
        /\ installDown[v] = {"./app.js"}
        /\ Has(caches, opened[v])
        /\ activeVer # 0
        /\ activeVer < v

\* C10: whenever a version is active, the store holds the cache its install
\* populated, with every asset of the list, also when the worker script was
\* evaluated again between the install and the activate event.
C10_ActiveVersionHasItsAssets ==
    activeVer # 0 => HoldsAllAssets(caches, opened[activeVer])

---------------------------------------------------------------------------
(* Properties of the page (checked under SpecUI) *)

ErrorPrefixes == {"[error] ", "[unexpected] "}

\* the messages of the CalcErrors the script constructs
CalcErrorMessages ==
    { "kVA must be > 0", "kW must be >= 0", "kW cannot exceed kVA",
      "Volts must be > 0", "Amps must be > 0", "Power factor must be between 0 and 1",
      "Provide exactly two of V, I, R", "R must not be 0", "I must not be 0" }

AllFieldsRequired ==
    { "Power Factor", "Reactive Power", "Phase Angle",
      "Load (Single-Phase)", "Load (Three-Phase)" }

\* the values the last compute click read from the form
Parsed == collectInputs(selected, fields)

\* C6: Ohm's Law fails with a CalcError unless exactly two of V, I, R are
\* provided; with two provided it fails when the missing one would be had by
\* dividing by a provided 0; otherwise it returns the two provided values
\* unchanged and a third such that V = I * R.
C6_OhmsLawSolvesTheThird ==
    (lastUI = "compute" /\ selected = "Ohm's Law") =>
        LET known == {x \in DOMAIN Parsed : ~IsNaN(Parsed[x])} IN
        IF Cardinality(known) # 2 THEN thrown = "CalcError"
        ELSE IF \/ "amps" \notin known /\ Parsed["ohms"] = Zero
                \/ "ohms" \notin known /\ Parsed["amps"] = Zero
             THEN thrown = "CalcError"
        ELSE /\ thrown = "none"
             /\ \A x \in known : out[x] = Parsed[x]
             /\ NumEq(out["volts"], Mul(out["amps"], out["ohms"]))

\* C7: for a calculator whose fields are all required, a compute click with a
\* field that is blank or not numeric displays an error-prefixed text with the
\* error flag set.
C7_MissingInputIsAnError ==
    (/\ lastUI = "compute"
     /\ selected \in AllFieldsRequired
     /\ \E x \in DOMAIN Parsed : IsNaN(Parsed[x]))
        => /\ resultError
           /\ resultText # <<>>
           /\ resultText[1] \in ErrorPrefixes

\* C8: for numeric P and S, Power Factor returns P/S, a value in [0,1], exactly
\* when S > 0 and 0 <= P <= S, and fails with a CalcError otherwise (with the
\* message that kW cannot exceed kVA when S > 0, P >= 0 and P > S); Reactive
\* Power and Phase Angle accept the same pairs.
C8_PowerFactorDomain ==
    (lastUI = "compute" /\ selected = "Power Factor") =>
        LET P == Parsed["p_kw"]
            S == Parsed["s_kva"]
        IN  (~IsNaN(P) /\ ~IsNaN(S)) =>
                /\ IF Gt(S, Zero) /\ Ge(P, Zero) /\ Le(P, S)
                   THEN /\ thrown = "none"
                        /\ NumEq(out["pf"], Div(P, S))
                        /\ Ge(out["pf"], Zero) /\ Le(out["pf"], One)
                   ELSE thrown = "CalcError"
                /\ (Gt(S, Zero) /\ Ge(P, Zero) /\ Gt(P, S))
                       => resultText = <<"[error] ", "kW cannot exceed kVA">>
                /\ (reactive_power_kvar(S, P).err = "") <=> (thrown = "none")
                /\ (phase_angle_deg(S, P).err = "") <=> (thrown = "none")

\* C9: every compute click ends with one of three displays: the formatted
\* result with the error flag off, "[error] <message>" with the flag on when
\* compute threw a CalcError, or "[unexpected] <details>" with the flag on for
\* any other failure.
C9_ComputeEndsWithADisplay ==
    lastUI = "compute" =>
        /\ (thrown = "CalcError") <=> (Compute(selected, Parsed).err # "")
        /\ \/ /\ thrown = "none"
              /\ ~resultError
              /\ resultText = Format(selected, out)
              /\ resultText[1] \notin ErrorPrefixes
           \/ /\ thrown = "CalcError"
              /\ resultError
              /\ Len(resultText) = 2
              /\ resultText[1] = "[error] "
              /\ resultText[2] \in CalcErrorMessages
           \/ /\ thrown = "other"
              /\ resultError
              /\ resultText[1] = "[unexpected] "

\* C9 witness: a compute click that failed validation shows the message of the
\* CalcError behind the error prefix.
C9_Witness ==
    /\ lastUI = "compute"
    /\ thrown = "CalcError"
    /\ resultError
    /\ resultText = <<"[error] ", "kW cannot exceed kVA">>

---------------------------------------------------------------------------
(* Companion checks: C6 and C8 restricted to forms whose numeric inputs are  *)
(* all finite.                                                              *)

AllInputsFinite == \A x \in DOMAIN Parsed : ~IsInf(Parsed[x])

\* C6 for finite inputs only
C6_WithFiniteInputs == AllInputsFinite => C6_OhmsLawSolvesTheThird

\* C8 for finite inputs only
C8_WithFiniteInputs == AllInputsFinite => C8_PowerFactorDomain

============================================================================
